---- MODULE Spec2Model ----
(***************************************************************************)
(* A model of argh::wparser (src/wargh.h): the registered-name set, the    *)
(* three result containers and the token loop of parse().                  *)
(*                                                                         *)
(* A string is a sequence of one-character strings, so that find('='),     *)
(* find_first_not_of('-'), back() and resize() are computed on characters. *)
(* flags_ (std::multiset) is a bag, params_ (std::multimap) is a function  *)
(* from each key present to the sequence of its values in insertion order, *)
(* pos_args_ and args_ (std::vector) are sequences.                        *)
(* assert() is modelled as compiled in: a failed assertion aborts.         *)
(***************************************************************************)
EXTENDS Integers, Sequences, FiniteSets, Bags, TLC

VARIABLES
    args_,              \* std::vector<std::wstring> args_
    params_,            \* std::multimap<std::wstring, std::wstring> params_
    pos_args_,          \* std::vector<std::wstring> pos_args_
    flags_,             \* std::multiset<std::wstring> flags_
    registeredParams_,  \* std::set<std::wstring> registeredParams_
    mode,               \* the mode argument of the parse call in progress
    i,                  \* the loop index of the parse call in progress (0-based)
    pc,                 \* "idle" (constructed), "parse" (in the loop), "done", "aborted"
    parses              \* how many times parse was called on this instance

vars == <<args_, params_, pos_args_, flags_, registeredParams_, mode, i, pc, parses>>

---------------------------------------------------------------------------
(* Bounds of the exploration.                                              *)

\* longest token list handed to the first parse of an instance
MaxArgs == 3
\* longest token list handed to a parse in SpecReparse
MaxReArgs == 2
\* number of parse calls on one instance in SpecReparse
MaxParses == 2

---------------------------------------------------------------------------
(* enum Mode                                                               *)

PREFER_FLAG_FOR_UNREG_OPTION == 1
PREFER_PARAM_FOR_UNREG_OPTION == 2
NO_SPLIT_ON_EQUALSIGN == 4
SINGLE_DASH_IS_MULTIFLAG == 8

\* mode & bit
HasBit(m, bit) == (m \div bit) % 2 = 1

Modes == 0 .. 15

---------------------------------------------------------------------------
(* Inputs.                                                                 *)

Digits == {"3"}

Tokens ==
    { <<>>,                                 \* the empty string
      <<"-">>,                              \* a lone dash
      <<"-", "c">>,                         \* -c
      <<"-", "a", "b", "c">>,               \* -abc
      <<"-", "-", "a", "b", "c">>,          \* --abc
      <<"-", "a", "=", "c">>,               \* -a=c
      <<"-", "3", ".", "3">>,               \* -3.3
      <<"X">> }                             \* X

ReTokens == { <<"X">>, <<"-", "c">>, <<"-", "a", "b", "c">> }

\* the names handed to add_param / add_params
RegInputs == { <<"c">>, <<"-", "-", "c">>, <<"a", "=", "c">> }

RECURSIVE ListsUpTo(_, _)
ListsUpTo(T, n) ==
    IF n = 0 THEN { <<>> }
    ELSE LET shorter == ListsUpTo(T, n - 1)
         IN  shorter \cup { Append(l, t) : l \in { s \in shorter : Len(s) = n - 1 }, t \in T }

Argv == ListsUpTo(Tokens, MaxArgs)
ReArgv == ListsUpTo(ReTokens, MaxReArgs)

---------------------------------------------------------------------------
(* Helpers of wparser.                                                     *)

\* first index >= k of s that holds no digit (Len(s) + 1 if there is none)
RECURSIVE SkipDigits(_, _)
SkipDigits(s, k) ==
    IF k <= Len(s) /\ s[k] \in Digits THEN SkipDigits(s, k + 1) ELSE k

\* istr >> number succeeds: an optional sign, digits, an optional decimal
\* point, digits, with at least one digit; extraction stops at the first
\* character that cannot continue the number, and what follows is not read.
is_number(arg) ==
    LET p0 == IF Len(arg) >= 1 /\ arg[1] \in {"-", "+"} THEN 2 ELSE 1
        p1 == SkipDigits(arg, p0)
        p2 == IF p1 <= Len(arg) /\ arg[p1] = "." THEN SkipDigits(arg, p1 + 1) ELSE p1
        nd == (p1 - p0) + (IF p2 > p1 THEN p2 - p1 - 1 ELSE 0)
    IN  nd >= 1

\* assert(0 != arg.size()) fails
is_option_asserts(arg) == Len(arg) = 0

\* faulty variant: the numeric check is left out
is_option_dash_only(arg) == arg[1] = "-"

\* is_option on a non-empty string
is_option(arg) == IF is_number(arg) THEN FALSE ELSE arg[1] = "-"

\* name.find_first_not_of('-'), 1-based; 0 when every character is a dash (npos)
RECURSIVE find_first_not_of_dash(_, _)
find_first_not_of_dash(name, k) ==
    IF k > Len(name) THEN 0
    ELSE IF name[k] # "-" THEN k
    ELSE find_first_not_of_dash(name, k + 1)

trim_leading_dashes(name) ==
    LET pos == find_first_not_of_dash(name, 1)
    IN  IF pos # 0 THEN SubSeq(name, pos, Len(name)) ELSE name

is_param(name) == name \in registeredParams_

\* name.find('='), 1-based; 0 for npos
RECURSIVE find_equal(_, _)
find_equal(name, k) ==
    IF k > Len(name) THEN 0
    ELSE IF name[k] = "=" THEN k
    ELSE find_equal(name, k + 1)

\* params_.insert({k, v})
params_insert(p, k, v) ==
    IF k \in DOMAIN p THEN [p EXCEPT ![k] = Append(@, v)] ELSE p @@ (k :> <<v>>)

\* flags_.emplace(name)
flags_emplace(f, name) == f (+) SetToBag({name})

\* for (auto const& c : name) flags_.emplace(std::wstring{ c });
RECURSIVE emplace_each_char(_, _, _)
emplace_each_char(f, name, k) ==
    IF k > Len(name) THEN f
    ELSE emplace_each_char(flags_emplace(f, <<name[k]>>), name, k + 1)

---------------------------------------------------------------------------
(* The body of the token loop of parse().  s is the record of what the    *)
(* loop changes: [i, flags, params, pos_args]; the result adds pc, which  *)
(* is "aborted" when an assertion failed and "parse" otherwise.           *)

Continue(s) == [pc |-> "parse", i |-> s.i, flags |-> s.flags,
                params |-> s.params, pos_args |-> s.pos_args]

Abort(s) == [Continue(s) EXCEPT !.pc = "aborted"]

\* faulty variant: the mode bit is not consulted
split_on_equal_always(m, name) == find_equal(name, 1) # 0

\* faulty variant: the test of the mode bit is inverted
split_on_equal_inverted(m, name) ==
    HasBit(m, NO_SPLIT_ON_EQUALSIGN) /\ find_equal(name, 1) # 0

\* !(mode & NO_SPLIT_ON_EQUALSIGN) and name.find('=') != npos
split_on_equal(m, name) ==
    ~HasBit(m, NO_SPLIT_ON_EQUALSIGN) /\ find_equal(name, 1) # 0

\* the condition of the multi-flag block
is_multiflag(arg, name, m) ==
    /\ Len(arg) - Len(name) = 1
    /\ HasBit(m, SINGLE_DASH_IS_MULTIFLAG)
    /\ ~is_param(name)

\* faulty variant: the last character is never peeled off
last_char_never_param(name) == FALSE

\* !name.empty() && is_param(std::wstring(1ul, name.back()))
last_char_is_param(name) ==
    name # <<>> /\ is_param(<<name[Len(name)]>>)

\* i == args_.size() - 1 (idx is the 0-based i)
is_last(idx) == idx = Len(args_) - 1

\* faulty variant: the assertion is missing
mode_assert_absent(m) == FALSE

\* faulty variant: the assertion rejects PREFER_PARAM_FOR_UNREG_OPTION alone
mode_assert_param_alone(m) == HasBit(m, PREFER_PARAM_FOR_UNREG_OPTION)

\* the assertion that the two preferences are not both set fails
mode_assert_fails(m) ==
    HasBit(m, PREFER_FLAG_FOR_UNREG_OPTION) /\ HasBit(m, PREFER_PARAM_FOR_UNREG_OPTION)

\* faulty variant: the preference is read off the PREFER_FLAG bit
preferParam_from_flag_bit(m) == ~HasBit(m, PREFER_FLAG_FOR_UNREG_OPTION)

\* bool preferParam = mode & PREFER_PARAM_FOR_UNREG_OPTION
preferParam(m) == HasBit(m, PREFER_PARAM_FOR_UNREG_OPTION)

\* faulty variant: registration is not consulted
takes_value_prefer_only(name, m) == HasBit(m, PREFER_PARAM_FOR_UNREG_OPTION)

\* name takes the next arg as its value
takes_value(name, m) == is_param(name) \/ preferParam(m)

\* faulty variant: ++i is missing after the value is taken
option_tail_no_skip(s, m, name, fl) ==
    IF s.i = Len(args_) - 1
    THEN [Continue(s) EXCEPT !.flags = flags_emplace(fl, name), !.i = s.i + 1]
    ELSE IF is_option_asserts(args_[s.i + 2])
    THEN [Abort(s) EXCEPT !.flags = fl]
    ELSE IF is_option(args_[s.i + 2])
    THEN [Continue(s) EXCEPT !.flags = flags_emplace(fl, name), !.i = s.i + 1]
    ELSE IF HasBit(m, PREFER_FLAG_FOR_UNREG_OPTION) /\ HasBit(m, PREFER_PARAM_FOR_UNREG_OPTION)
    THEN [Abort(s) EXCEPT !.flags = fl]
    ELSE IF is_param(name) \/ HasBit(m, PREFER_PARAM_FOR_UNREG_OPTION)
    THEN [Continue(s) EXCEPT !.flags = fl,
                             !.params = params_insert(s.params, name, args_[s.i + 2]),
                             !.i = s.i + 1]
    ELSE [Continue(s) EXCEPT !.flags = flags_emplace(fl, name), !.i = s.i + 1]

\* from "any potential option will get as its value the next arg" to the
\* end of the loop body; fl is flags_ as the multi-flag block left it
option_tail(s, m, name, fl) ==
    IF is_last(s.i)
    THEN [Continue(s) EXCEPT !.flags = flags_emplace(fl, name), !.i = s.i + 1]
    ELSE IF is_option_asserts(args_[s.i + 2])
    THEN [Abort(s) EXCEPT !.flags = fl]
    ELSE IF is_option(args_[s.i + 2])
    THEN [Continue(s) EXCEPT !.flags = flags_emplace(fl, name), !.i = s.i + 1]
    ELSE IF mode_assert_fails(m)
    THEN [Abort(s) EXCEPT !.flags = fl]
    ELSE IF takes_value(name, m)
    THEN [Continue(s) EXCEPT !.flags = fl,
                             !.params = params_insert(s.params, name, args_[s.i + 2]),
                             !.i = s.i + 2]
    ELSE [Continue(s) EXCEPT !.flags = flags_emplace(fl, name), !.i = s.i + 1]

\* the multi-flag block and what follows it
multiflag_block(s, m, name) ==
    IF last_char_is_param(name)
    THEN option_tail(s, m, <<name[Len(name)]>>,
                     emplace_each_char(s.flags, SubSeq(name, 1, Len(name) - 1), 1))
    ELSE [Continue(s) EXCEPT !.flags = emplace_each_char(s.flags, name, 1), !.i = s.i + 1]

LoopBody(s, m) ==
    LET arg == args_[s.i + 1] IN
    IF is_option_asserts(arg)
    THEN Abort(s)
    ELSE IF ~is_option(arg)
    THEN [Continue(s) EXCEPT !.pos_args = Append(s.pos_args, arg), !.i = s.i + 1]
    ELSE LET name == trim_leading_dashes(arg) IN
         IF split_on_equal(m, name)
         THEN LET equalPos == find_equal(name, 1) IN
              [Continue(s) EXCEPT
                   !.params = params_insert(s.params,
                                            SubSeq(name, 1, equalPos - 1),
                                            SubSeq(name, equalPos + 1, Len(name))),
                   !.i = s.i + 1]
         ELSE IF is_multiflag(arg, name, m)
         THEN multiflag_block(s, m, name)
         ELSE option_tail(s, m, name, s.flags)

\* the whole loop, from the state s on
RECURSIVE RunLoop(_, _)
RunLoop(s, m) ==
    IF s.pc = "aborted" \/ s.i >= Len(args_) THEN s
    ELSE RunLoop(LoopBody(s, m), m)

\* the containers as parse clears them before the loop
Cleared == [pc |-> "parse", i |-> 0, flags |-> EmptyBag, params |-> <<>>, pos_args |-> <<>>]

Current == [pc |-> pc, i |-> i, flags |-> flags_, params |-> params_, pos_args |-> pos_args_]

---------------------------------------------------------------------------
(* The operations.                                                         *)

Init ==
    /\ args_ = <<>>
    /\ params_ = <<>>
    /\ pos_args_ = <<>>
    /\ flags_ = EmptyBag
    /\ registeredParams_ = {}
    /\ mode = 0
    /\ i = 0
    /\ pc = "idle"
    /\ parses = 0

Callable == pc \in {"idle", "done"}

\* add_param(name), add_params(name)
add_param(name) ==
    /\ Callable
    /\ registeredParams_' = registeredParams_ \cup {trim_leading_dashes(name)}
    /\ UNCHANGED <<args_, params_, pos_args_, flags_, mode, i, pc, parses>>

\* add_params(init_list), add_param(init_list)
add_params(init_list) ==
    /\ Callable
    /\ registeredParams_' =
           registeredParams_ \cup {trim_leading_dashes(name) : name \in init_list}
    /\ UNCHANGED <<args_, params_, pos_args_, flags_, mode, i, pc, parses>>

\* faulty variant: pos_args_ is not cleared
ParseBeginKeepsPosArgs(argv, m) ==
    /\ pc \in {"idle", "done"}
    /\ flags_' = EmptyBag
    /\ params_' = <<>>
    /\ args_' = argv
    /\ mode' = m
    /\ i' = 0
    /\ pc' = "parse"
    /\ parses' = parses + 1
    /\ UNCHANGED <<pos_args_, registeredParams_>>

\* parse(argc, argv, mode) up to the loop: clear, resize, transform
ParseBegin(argv, m) ==
    /\ Callable
    /\ flags_' = Cleared.flags
    /\ params_' = Cleared.params
    /\ pos_args_' = Cleared.pos_args
    /\ args_' = argv
    /\ mode' = m
    /\ i' = 0
    /\ pc' = "parse"
    /\ parses' = parses + 1
    /\ UNCHANGED registeredParams_

\* one iteration of the loop
ParseStep ==
    /\ pc = "parse"
    /\ i < Len(args_)
    /\ LET r == LoopBody(Current, mode) IN
       /\ pc' = r.pc
       /\ i' = r.i
       /\ flags_' = r.flags
       /\ params_' = r.params
       /\ pos_args_' = r.pos_args
    /\ UNCHANGED <<args_, registeredParams_, mode, parses>>

\* the loop condition fails: parse returns, its locals are gone
ParseReturn ==
    /\ pc = "parse"
    /\ i >= Len(args_)
    /\ pc' = "done"
    /\ mode' = 0
    /\ i' = 0
    /\ UNCHANGED <<args_, params_, pos_args_, flags_, registeredParams_, parses>>

Register ==
    \/ \E name \in RegInputs : add_param(name)
    \/ \E init_list \in SUBSET RegInputs : add_params(init_list)

\* the first parse of an instance, on any token list
FirstParse ==
    /\ parses = 0
    /\ \E argv \in Argv, m \in Modes : ParseBegin(argv, m)

\* any parse of an instance, the first or a later one
AnyParse ==
    /\ parses < MaxParses
    /\ \E argv \in ReArgv, m \in Modes : ParseBegin(argv, m)

\* registrations in any order, and one parse of any token list
Next == Register \/ FirstParse \/ ParseStep \/ ParseReturn

Spec == Init /\ [][Next]_vars

\* registrations and parses in any order, on shorter token lists
NextReparse == Register \/ AnyParse \/ ParseStep \/ ParseReturn

SpecReparse == Init /\ [][NextReparse]_vars

---------------------------------------------------------------------------
(* What the claims speak of, at a state where an iteration is about to    *)
(* run on the token args_[i] (the sequence element i + 1).                 *)

Stepping == pc = "parse" /\ i < Len(args_)
CurArg == args_[i + 1]
CurName == trim_leading_dashes(CurArg)
HasNext == i + 1 < Len(args_)
NextArg == args_[i + 2]
CurIsOption == Stepping /\ Len(CurArg) # 0 /\ is_option(CurArg)
NextIsValue == HasNext /\ Len(NextArg) # 0 /\ ~is_option(NextArg)
NextIsOption == HasNext /\ Len(NextArg) # 0 /\ is_option(NextArg)
NoEmptyToken == \A k \in 1 .. Len(args_) : Len(args_[k]) # 0
ModeConflict ==
    mode % 2 = 1 /\ (mode \div 2) % 2 = 1
SplitApplies ==
    (mode \div 4) % 2 = 0 /\ \E k \in 1 .. Len(CurName) : CurName[k] = "="
EqualAt == CHOOSE k \in 1 .. Len(CurName) :
               CurName[k] = "=" /\ \A j \in 1 .. k - 1 : CurName[j] # "="
SingleDash == Len(CurArg) >= 2 /\ CurArg[1] = "-" /\ CurArg[2] # "-"
MultiApplies ==
    SingleDash /\ (mode \div 8) % 2 = 1 /\ CurName \notin registeredParams_
LastChar == <<CurName[Len(CurName)]>>
LeadingChars == SubSeq(CurName, 1, Len(CurName) - 1)
LastIsRegistered == LastChar \in registeredParams_
OneFlagPerChar(name) == flags_ (+) [c \in {<<name[k]>> : k \in 1 .. Len(name)} |->
                                       Cardinality({k \in 1 .. Len(name) : <<name[k]>> = c})]
OneMoreFlag(name) == flags_ (+) SetToBag({name})
OneMoreParam(k, v) ==
    IF k \in DOMAIN params_ THEN [params_ EXCEPT ![k] = Append(params_[k], v)]
    ELSE [x \in DOMAIN params_ \cup {k} |-> IF x = k THEN <<v>> ELSE params_[x]]

---------------------------------------------------------------------------
(* C1 *)

C1_Case == CurIsOption /\ CurName \in registeredParams_ /\ HasNext

\* C1 as stated: whenever an option token with a registered name is followed
\* by another token (and the iteration does not abort), the pair (name, next
\* token) is inserted into params and no flag is added, whatever the next
\* token looks like.
C1_Original ==
    [][C1_Case /\ pc' = "parse"
         => params_' = OneMoreParam(CurName, NextArg) /\ flags_' = flags_]_vars

\* C1 amended: an option token with a registered name to which '=' splitting
\* does not apply, in a mode that does not set both preferences: followed by
\* a token that is not an option, (name, next token) is inserted into params,
\* no flag is added and the next token is skipped; followed by a token that
\* looks like an option, the name is added to flags and nothing is consumed.
C1_RegisteredTakesValue ==
    [][C1_Case /\ ~SplitApplies /\ ~ModeConflict
         => /\ NextIsValue =>
                 /\ pc' = "parse"
                 /\ params_' = OneMoreParam(CurName, NextArg)
                 /\ flags_' = flags_
                 /\ pos_args_' = pos_args_
                 /\ i' = i + 2
            /\ NextIsOption =>
                 /\ pc' = "parse"
                 /\ params_' = params_
                 /\ flags_' = OneMoreFlag(CurName)
                 /\ pos_args_' = pos_args_
                 /\ i' = i + 1]_vars

\* a registered -c, with neither preference set, has taken the next token
C1_Witness ==
    /\ pc = "parse" /\ i = 2 /\ mode = 0
    /\ args_[1] = <<"-", "c">>
    /\ <<"c">> \in registeredParams_
    /\ ~is_option(args_[2])
    /\ params_ = (<<"c">> :> <<args_[2]>>)
    /\ flags_ = EmptyBag
    /\ pos_args_ = <<>>

---------------------------------------------------------------------------
(* C2 *)

C2_Case == CurIsOption /\ i = Len(args_) - 1

\* C2 as stated: an option-looking token that is the last token adds a flag
\* and never a parameter, for every mode and registered-name set.
C2_Original ==
    [][C2_Case => params_' = params_ /\ flags_' # flags_]_vars

\* C2 amended: an option-looking last token to which '=' splitting does not
\* apply adds flags only (its name, or with multiflag expansion one flag per
\* character) and never a parameter, for every mode and registered-name set.
C2_LastOptionIsFlag ==
    [][C2_Case /\ ~SplitApplies
         => /\ pc' = "parse"
            /\ params_' = params_
            /\ pos_args_' = pos_args_
            /\ i' = i + 1
            /\ flags_' = IF MultiApplies THEN OneFlagPerChar(CurName)
                         ELSE OneMoreFlag(CurName)]_vars

\* a registered -c as the only token, in a mode that prefers parameters
C2_Witness ==
    /\ pc = "parse" /\ i = 1 /\ Len(args_) = 1
    /\ args_[1] = <<"-", "c">>
    /\ <<"c">> \in registeredParams_
    /\ (mode \div 2) % 2 = 1
    /\ flags_ = SetToBag({<<"c">>})
    /\ params_ = <<>>

---------------------------------------------------------------------------
(* C3 *)

\* the preference is consulted on this token: an option that is not split,
\* not wholly expanded into flags, and followed by a token that is no option
PreferenceConsulted ==
    /\ CurIsOption
    /\ ~SplitApplies
    /\ ~(MultiApplies /\ ~LastIsRegistered)
    /\ NextIsValue

\* C3 as stated: a parse whose mode sets both preferences never runs to
\* completion, whatever the token list.
C3_Original ==
    [][pc = "parse" /\ ModeConflict => pc' # "done"]_vars

\* C3 amended: a parse whose mode sets both preferences aborts when it reaches
\* a token on which the preference is consulted (an option that is not split
\* on '=', not wholly expanded into flags, and followed by a non-option
\* token); on tokens where it is not consulted the parse goes on, so a list
\* without such a token runs to completion.
C3_ConflictAbortsWhenConsulted ==
    [][Stepping /\ ModeConflict /\ NoEmptyToken
         => (pc' = "aborted" <=> PreferenceConsulted)]_vars

\* aborted on the mode conflict, with no empty token in the list
C3_Witness ==
    /\ pc = "aborted"
    /\ ModeConflict
    /\ NoEmptyToken
    /\ Len(args_) >= 2

---------------------------------------------------------------------------
(* C4 *)

---------------------------------------------------------------------------
(* C5 *)

\* C5: when a parse returns, flags, params and pos_args are exactly what the
\* loop makes of the token list just parsed starting from empty containers
\* (nothing of an earlier parse remains, nothing accumulates); no step of a
\* parse changes the registered names; a registration only adds names and
\* leaves flags, params and pos_args alone.
C5_ReparseReplaces ==
    [][/\ (pc = "parse" /\ pc' = "done") =>
              LET r == RunLoop(Cleared, mode) IN
              /\ flags_' = r.flags
              /\ params_' = r.params
              /\ pos_args_' = r.pos_args
       /\ (pc = "parse" \/ pc' = "parse") => registeredParams_' = registeredParams_
       /\ (pc # "parse" /\ pc' # "parse") =>
              /\ registeredParams_ \subseteq registeredParams_'
              /\ flags_' = flags_
              /\ params_' = params_
              /\ pos_args_' = pos_args_]_vars

\* a second parse has returned, on a list shorter than what the first parse
\* left in the containers could come from
C5_Witness ==
    /\ pc = "done"
    /\ parses = 2
    /\ registeredParams_ = {<<"c">>}
    /\ args_ = << <<"-", "c">>, <<"X">> >>
    /\ params_ = (<<"c">> :> << <<"X">> >>)
    /\ flags_ = EmptyBag
    /\ pos_args_ = <<>>

---------------------------------------------------------------------------
(* C6 *)

\* the outcomes of one iteration that does not abort
BecamePositional ==
    /\ pos_args_' = Append(pos_args_, CurArg)
    /\ flags_' = flags_ /\ params_' = params_
    /\ i' = i + 1

BecameFlags ==
    /\ flags_' # flags_ /\ flags_ \sqsubseteq flags_'
    /\ pos_args_' = pos_args_ /\ params_' = params_
    /\ i' = i + 1

BecameSplitParam ==
    /\ \E k \in 1 .. Len(CurName) : CurName[k] = "="
    /\ params_' = OneMoreParam(SubSeq(CurName, 1, EqualAt - 1),
                               SubSeq(CurName, EqualAt + 1, Len(CurName)))
    /\ flags_' = flags_ /\ pos_args_' = pos_args_
    /\ i' = i + 1

\* the token named a parameter and the next token was consumed as its value
BecameParamWithValue(name) ==
    /\ HasNext
    /\ params_' = OneMoreParam(name, NextArg)
    /\ pos_args_' = pos_args_
    /\ i' = i + 2

\* a multiflag cluster whose last character is registered: flags for the
\* leading characters and the last character as a parameter
BecameFlagsAndParam ==
    /\ MultiApplies /\ LastIsRegistered
    /\ flags_' = OneFlagPerChar(LeadingChars)
    /\ BecameParamWithValue(LastChar)

\* C6 as stated: an iteration that does not abort gives its token exactly one
\* outcome: a positional, or flags, or a parameter pair (with the next token
\* consumed as the value, or split on '='), and a consumed token is skipped.
C6_Original ==
    [][Stepping /\ pc' = "parse"
         => \/ BecamePositional
            \/ BecameFlags
            \/ BecameSplitParam
            \/ (flags_' = flags_ /\ BecameParamWithValue(CurName))]_vars

\* C6 amended: an iteration that does not abort gives its token exactly one
\* outcome (positional, flags, a parameter pair), except that with
\* SINGLE_DASH_IS_MULTIFLAG a single-dash token with an unregistered name
\* whose last character is registered, followed by a non-option token, yields
\* both flags (one per leading character) and the parameter (last character,
\* next token); a token consumed as a value is skipped by the loop, so it
\* adds no positional, flag or parameter of its own.
C6_EveryTokenAccounted ==
    [][Stepping /\ pc' = "parse"
         => \/ BecamePositional
            \/ BecameFlags
            \/ BecameSplitParam
            \/ (flags_' = flags_ /\ BecameParamWithValue(CurName))
            \/ BecameFlagsAndParam]_vars

\* -c X X with c registered: the first X was consumed, the second is positional
C6_Witness ==
    /\ pc = "parse" /\ i = 3
    /\ args_ = << <<"-", "c">>, <<"X">>, <<"X">> >>
    /\ params_ = (<<"c">> :> << <<"X">> >>)
    /\ pos_args_ = << <<"X">> >>
    /\ flags_ = EmptyBag

---------------------------------------------------------------------------
(* C7 *)

C7_Case == CurIsOption /\ MultiApplies /\ ~SplitApplies

\* C7 as stated: a multiflag cluster yields one flag per character, but when
\* its last character is registered and any token follows, one flag per
\* leading character and the parameter (last character, next token), the next
\* token being consumed.
C7_Original ==
    [][C7_Case /\ pc' = "parse"
         => IF LastIsRegistered /\ HasNext
            THEN /\ flags_' = OneFlagPerChar(LeadingChars)
                 /\ params_' = OneMoreParam(LastChar, NextArg)
                 /\ pos_args_' = pos_args_
                 /\ i' = i + 2
            ELSE /\ flags_' = OneFlagPerChar(CurName)
                 /\ params_' = params_
                 /\ pos_args_' = pos_args_
                 /\ i' = i + 1]_vars

\* C7 amended: with SINGLE_DASH_IS_MULTIFLAG set and both preferences not set
\* together, a single-dash option token with an unregistered name that is not
\* split on '=' yields one flag per character of the name; but when its last
\* character is registered and the token is followed by a token X that is not
\* an option, it yields one flag per leading character and the parameter
\* (last character, X), X being consumed and not added to pos_args.
C7_Multiflag ==
    [][C7_Case /\ ~ModeConflict /\ (HasNext => Len(NextArg) # 0)
         => /\ pc' = "parse"
            /\ IF LastIsRegistered /\ NextIsValue
               THEN /\ flags_' = OneFlagPerChar(LeadingChars)
                    /\ params_' = OneMoreParam(LastChar, NextArg)
                    /\ pos_args_' = pos_args_
                    /\ i' = i + 2
               ELSE /\ flags_' = OneFlagPerChar(CurName)
                    /\ params_' = params_
                    /\ pos_args_' = pos_args_
                    /\ i' = i + 1]_vars

\* -abc X with c registered: flags a and b, parameter c = X
C7_Witness ==
    /\ pc = "parse" /\ i = 2 /\ Len(args_) = 2
    /\ (mode \div 8) % 2 = 1
    /\ args_[1] = <<"-", "a", "b", "c">>
    /\ ~is_option(args_[2])
    /\ flags_ = SetToBag({<<"a">>, <<"b">>})
    /\ params_ = (<<"c">> :> <<args_[2]>>)
    /\ pos_args_ = <<>>

---------------------------------------------------------------------------
(* C8 *)

\* C8: with NO_SPLIT_ON_EQUALSIGN not set, an option token whose name holds
\* an '=' adds exactly one parameter entry (the text before the first '=',
\* the text after it), no flag and no positional, and the loop goes on with
\* the very next token, whatever the other mode bits and registered names.
C8_SplitOnEqual ==
    [][CurIsOption /\ SplitApplies => pc' = "parse" /\ BecameSplitParam]_vars

\* -a=c was split in a mode with multiflag and prefer-param set and with the
\* whole name registered, and the next token is still to be classified
C8_Witness ==
    /\ pc = "parse" /\ i = 1 /\ Len(args_) >= 2
    /\ mode = 10
    /\ <<"a", "=", "c">> \in registeredParams_
    /\ args_[1] = <<"-", "a", "=", "c">>
    /\ params_ = (<<"a">> :> << <<"c">> >>)
    /\ flags_ = EmptyBag
    /\ pos_args_ = <<>>

---------------------------------------------------------------------------
(* C9 *)

\* the token is a numeric literal: a sign, digits, a decimal point, digits
IsNumericLiteral(t) ==
    /\ Len(t) >= 2
    /\ t[1] = "-"
    /\ \A k \in 2 .. Len(t) : t[k] \in Digits \cup {"."}
    /\ \E k \in 2 .. Len(t) : t[k] \in Digits
    /\ Cardinality({k \in 2 .. Len(t) : t[k] = "."}) <= 1

\* C9: a numeric literal that begins with a dash is never taken as an option:
\* the iteration that reaches it appends it to pos_args and adds no flag and
\* no parameter; and as the token after an option that takes a value (its
\* name registered or parameters preferred) it is consumed as that value.
C9_NumberIsNoOption ==
    [][/\ (Stepping /\ IsNumericLiteral(CurArg)) =>
              pc' = "parse" /\ BecamePositional
       /\ (/\ CurIsOption /\ ~SplitApplies /\ ~MultiApplies /\ ~ModeConflict
           /\ HasNext /\ IsNumericLiteral(NextArg)
           /\ (CurName \in registeredParams_ \/ (mode \div 2) % 2 = 1)) =>
              /\ pc' = "parse"
              /\ flags_' = flags_
              /\ BecameParamWithValue(CurName)]_vars

\* --abc -3.3 -3.3 with parameters preferred: the first -3.3 is the value of
\* abc, the second is positional
C9_Witness ==
    /\ pc = "parse" /\ i = 3
    /\ args_ = << <<"-", "-", "a", "b", "c">>, <<"-", "3", ".", "3">>, <<"-", "3", ".", "3">> >>
    /\ params_ = (<<"a", "b", "c">> :> << <<"-", "3", ".", "3">> >>)
    /\ pos_args_ = << <<"-", "3", ".", "3">> >>
    /\ flags_ = EmptyBag

---------------------------------------------------------------------------
(* C10 *)

\* the mode with the PREFER_FLAG_FOR_UNREG_OPTION bit flipped
FlipPreferFlag(m) == IF m % 2 = 1 THEN m - 1 ELSE m + 1

\* C10: when a parse whose mode does not set PREFER_PARAM_FOR_UNREG_OPTION
\* ends (returns or aborts), flags, params, pos_args and the way it ended are
\* what the loop makes of the same token list and registered names with the
\* PREFER_FLAG_FOR_UNREG_OPTION bit flipped.
C10_PreferFlagBitIgnored ==
    [][(pc = "parse" /\ pc' \in {"done", "aborted"} /\ (mode \div 2) % 2 = 0)
         => LET r == RunLoop(Cleared, FlipPreferFlag(mode)) IN
            /\ (r.pc = "aborted") <=> (pc' = "aborted")
            /\ r.flags = flags_'
            /\ r.params = params_'
            /\ r.pos_args = pos_args_']_vars

\* mode 0 has parsed --abc X: abc is a flag and X a positional, as with
\* PREFER_FLAG_FOR_UNREG_OPTION
C10_Witness ==
    /\ pc = "parse" /\ i = 2 /\ Len(args_) = 2
    /\ mode = 0
    /\ args_[1] = <<"-", "-", "a", "b", "c">>
    /\ args_[2] = <<"X">>
    /\ flags_ = SetToBag({<<"a", "b", "c">>})
    /\ pos_args_ = << <<"X">> >>
    /\ params_ = <<>>

====
